---- MODULE Spec2Model ----
(***************************************************************************)
(* Model of uqcsbot/whatweekisit.py: the calendar parser                   *)
(* (get_semester_times), the week resolver (get_semester_week) and the     *)
(* whatweekisit slash command that drives them.                            *)
(*                                                                         *)
(* Text is modelled as a sequence of tokens (strings); "x in text" is      *)
(* containment of a contiguous run of tokens.  A calendar document is the  *)
(* sequence, in document order, of its <h3> year headings and its          *)
(* <div class="uq-accordion__item"> blocks; every block carries its <h4>   *)
(* label and the texts of the <li> lines of its content <div>.             *)
(*                                                                         *)
(* A datetime is a record [year, month, day, hour]; all datetimes of the   *)
(* program carry the same zone (Australia/Brisbane, no daylight saving),   *)
(* so they compare as wall-clock values.  Python's None for a date is the  *)
(* record NoneDate (year 0 is not a Python year).  A Python call that may  *)
(* raise returns a record [exc, val]: exc = "" when it returned val.       *)
(***************************************************************************)
EXTENDS Integers, Sequences, FiniteSets, TLC

VARIABLES
    calendar_page,   \* content of ACADEMIC_CALENDAR_FILE (a document)
    date,            \* the command's date argument (NoneArg when omitted)
    check_date,      \* the datetime that is looked up
    semesters,       \* list returned by get_semester_times
    semester_tuple,  \* value returned by get_semester_week (<<>> is None)
    replies,         \* contents sent through interaction.edit_original_response
    exc,             \* exception that left the running function ("" if none)
    trace            \* calls made by the running function, in order

vars == <<calendar_page, date, check_date, semesters, semester_tuple, replies, exc, trace>>

----------------------------------------------------------------------------
(* Bounds of the explored inputs *)

\* longest <li> list of a block in the line-level documents
MaxLines == 3
\* most headings and blocks after the first heading of a structure-level document
MaxElems == 5
\* most headings and blocks after the first heading of a calendar file
MaxCalElems == 4
\* longest semester list given directly to get_semester_week
MaxSemesters == 2

----------------------------------------------------------------------------
(* Python values *)

Ok(v) == [exc |-> "", val |-> v]

Raise(e, v) == [exc |-> e, val |-> v]

NoneDate == [year |-> 0, month |-> 0, day |-> 0, hour |-> 0]

NoneArg == <<"None">>

Semester(name, start_date, end_date) ==
    [name |-> name, start_date |-> start_date, end_date |-> end_date]

----------------------------------------------------------------------------
(* datetime arithmetic (proleptic Gregorian calendar, as Python's datetime) *)

IsLeap(y) == (y % 4 = 0 /\ y % 100 # 0) \/ y % 400 = 0

DaysInMonth(y, m) ==
    IF m = 2 THEN (IF IsLeap(y) THEN 29 ELSE 28)
    ELSE IF m \in {4, 6, 9, 11} THEN 30 ELSE 31

RECURSIVE DaysBeforeMonth(_, _)
DaysBeforeMonth(y, m) ==
    IF m <= 1 THEN 0 ELSE DaysBeforeMonth(y, m - 1) + DaysInMonth(y, m - 1)

DaysBeforeYear(y) ==
    (y - 1) * 365 + ((y - 1) \div 4) - ((y - 1) \div 100) + ((y - 1) \div 400)

\* datetime.toordinal(): 1 January of year 1 is day 1
toordinal(dt) == DaysBeforeYear(dt.year) + DaysBeforeMonth(dt.year, dt.month) + dt.day

\* position of a datetime on the time line, in hours
Hours(dt) == toordinal(dt) * 24 + dt.hour

\* a <= b on datetimes
DateLeq(a, b) == Hours(a) <= Hours(b)

\* (a - b).days : timedelta.days is the floor of the difference in days
DaysBetween(a, b) == (Hours(a) - Hours(b)) \div 24

WeekdayNames == <<"Monday", "Tuesday", "Wednesday", "Thursday", "Friday", "Saturday", "Sunday">>

\* dt.strftime("%A")
strftime_A(dt) == WeekdayNames[((toordinal(dt) + 6) % 7) + 1]

----------------------------------------------------------------------------
(* numerals and month names, as strptime / strftime read and write them *)

NumTok == <<"1", "2", "3", "4", "5", "6", "7", "8", "9", "10",
            "11", "12", "13", "14", "15", "16", "17", "18", "19", "20",
            "21", "22", "23", "24", "25", "26", "27", "28", "29", "30", "31">>

PadTok == <<"01", "02", "03", "04", "05", "06", "07", "08", "09">>

MonthAbbr == <<"Jan", "Feb", "Mar", "Apr", "May", "Jun",
               "Jul", "Aug", "Sep", "Oct", "Nov", "Dec">>

\* the four-digit year texts of the explored inputs
YearText == (2023 :> "2023") @@ (2024 :> "2024") @@ (2025 :> "2025") @@
            (2026 :> "2026") @@ (2027 :> "2027")

\* the number a one- or two-digit numeral (%d, %m) stands for; 0 if it is none
IntOfNumeral(s) ==
    IF \E i \in DOMAIN NumTok : NumTok[i] = s
    THEN CHOOSE i \in DOMAIN NumTok : NumTok[i] = s
    ELSE IF \E i \in DOMAIN PadTok : PadTok[i] = s
    THEN CHOOSE i \in DOMAIN PadTok : PadTok[i] = s
    ELSE 0

\* the month an abbreviated month name (%b) stands for; 0 if it is none
IntOfMonthAbbr(s) ==
    IF \E i \in DOMAIN MonthAbbr : MonthAbbr[i] = s
    THEN CHOOSE i \in DOMAIN MonthAbbr : MonthAbbr[i] = s
    ELSE 0

\* the year a four-digit numeral (%Y, int()) stands for; 0 if it is none
IntOfYear(s) ==
    IF \E y \in DOMAIN YearText : YearText[y] = s
    THEN CHOOSE y \in DOMAIN YearText : YearText[y] = s
    ELSE 0

\* zero-padded two-digit numeral (%d, %m of strftime)
Pad2(n) == IF n <= 9 THEN PadTok[n] ELSE NumTok[n]

\* datetime(y, m, d) of strptime: ValueError unless it is a calendar day
MakeDate(y, m, d) ==
    IF y >= 1 /\ m \in 1..12 /\ d >= 1 /\ d <= DaysInMonth(y, m)
    THEN Ok([year |-> y, month |-> m, day |-> d, hour |-> 0])
    ELSE Raise("ValueError", NoneDate)

----------------------------------------------------------------------------
(* date_to_string, string_to_date *)

\* date.strftime("%d/%m/%Y")
date_to_string(dt) == <<Pad2(dt.day), "/", Pad2(dt.month), "/", YearText[dt.year]>>

\* datetime.strptime(date, "%d/%m/%Y").replace(tzinfo=...)
string_to_date(s) ==
    IF Len(s) = 5 /\ s[2] = "/" /\ s[4] = "/"
    THEN MakeDate(IntOfYear(s[5]), IntOfNumeral(s[3]), IntOfNumeral(s[1]))
    ELSE Raise("ValueError", NoneDate)

----------------------------------------------------------------------------
(* get_semester_times *)
(* In the loops below the value of a step is bound by "r \in {step}": the  *)
(* step is computed once and r is its value.                               *)

\* the separator text.split() cuts the date off at
Sep == "--"

RecognizedLabels == {"Semester 1", "Semester 2"}

H3(year_text) == [tag |-> "h3", text |-> year_text, label |-> "", lines |-> <<>>]

AccordionItem(label, lines) == [tag |-> "div", text |-> "", label |-> label, lines |-> lines]

\* needle in text, both token sequences
Contains(text, needle) ==
    \E i \in 0..(Len(text) - Len(needle)) :
        \A k \in 1..Len(needle) : text[i + k] = needle[k]

\* text.split(Sep, 1)[0]: the tokens before the first separator (tokens carry
\* no white space, so .replace("\xa0", " ").strip() leaves them as they are)
BeforeSep(text) ==
    IF \E i \in 1..Len(text) : text[i] = Sep
    THEN SubSeq(text, 1, (CHOOSE i \in 1..Len(text) :
                             text[i] = Sep /\ \A j \in 1..(i - 1) : text[j] # Sep) - 1)
    ELSE text

\* get_date(): strptime(f"{date_str} {year.text}", "%d %b %Y")
get_date(text, year_text) ==
    LET date_str == BeforeSep(text)
    IN  IF Len(date_str) = 2
        THEN MakeDate(IntOfYear(year_text), IntOfMonthAbbr(date_str[2]), IntOfNumeral(date_str[1]))
        ELSE Raise("ValueError", NoneDate)

\* event_step with "if" in place of "elif": an end marker is looked for in
\* every line, also in one that holds "Classes start"
event_step_two_ifs(semester, text, year_text) ==
    IF (Contains(text, <<"Classes", "start">>)
          \/ Contains(text, <<semester.name, "classes", "end">>)
          \/ Contains(text, <<semester.name, "ends">>))
       /\ get_date(text, year_text).exc # ""
    THEN Raise("ValueError", semester)
    ELSE Ok([semester EXCEPT
               !.start_date = IF Contains(text, <<"Classes", "start">>)
                              THEN get_date(text, year_text).val ELSE @,
               !.end_date = IF Contains(text, <<semester.name, "classes", "end">>)
                               \/ Contains(text, <<semester.name, "ends">>)
                            THEN get_date(text, year_text).val ELSE @])

\* one pass of the loop over the <li> events: semester is the dict being filled
event_step(semester, text, year_text) ==
    IF Contains(text, <<"Classes", "start">>)
    THEN LET r == get_date(text, year_text)
         IN  IF r.exc # "" THEN Raise(r.exc, semester)
             ELSE Ok([semester EXCEPT !.start_date = r.val])
    ELSE IF Contains(text, <<semester.name, "classes", "end">>)
            \/ Contains(text, <<semester.name, "ends">>)
    THEN LET r == get_date(text, year_text)
         IN  IF r.exc # "" THEN Raise(r.exc, semester)
             ELSE Ok([semester EXCEPT !.end_date = r.val])
    ELSE Ok(semester)

\* for event in semester_content.find_all("li"), from line i on
RECURSIVE scan_events(_, _, _, _)
scan_events(semester, lines, i, year_text) ==
    IF i > Len(lines) THEN Ok(semester)
    ELSE CHOOSE out \in
             {IF r.exc # "" THEN r ELSE scan_events(r.val, lines, i + 1, year_text) :
                 r \in {event_step(semester, lines[i], year_text)}} : TRUE

\* element_step without the break at the next <h3>
element_step_past_heading(element, year_text, acc) ==
    IF element.tag = "h3"
    THEN [stop |-> FALSE, exc |-> "", val |-> acc]
    ELSE IF element.label \notin RecognizedLabels
    THEN [stop |-> TRUE, exc |-> "", val |-> acc]
    ELSE LET r == scan_events(Semester(element.label, NoneDate, NoneDate),
                              element.lines, 1, year_text)
         IN  IF r.exc # ""
             THEN [stop |-> TRUE, exc |-> r.exc, val |-> acc]
             ELSE [stop |-> FALSE, exc |-> "", val |-> Append(acc, r.val)]

\* element_step with "continue" in place of "break" at an unrecognized label
element_step_skips_label(element, year_text, acc) ==
    IF element.tag = "h3"
    THEN [stop |-> TRUE, exc |-> "", val |-> acc]
    ELSE IF element.label \notin RecognizedLabels
    THEN [stop |-> FALSE, exc |-> "", val |-> acc]
    ELSE LET r == scan_events(Semester(element.label, NoneDate, NoneDate),
                              element.lines, 1, year_text)
         IN  IF r.exc # ""
             THEN [stop |-> TRUE, exc |-> r.exc, val |-> acc]
             ELSE [stop |-> FALSE, exc |-> "", val |-> Append(acc, r.val)]

\* one pass of the loop over year.find_all_next(): stop is the break
element_step(element, year_text, acc) ==
    IF element.tag = "h3"
    THEN [stop |-> TRUE, exc |-> "", val |-> acc]
    ELSE IF element.label \notin RecognizedLabels
    THEN [stop |-> TRUE, exc |-> "", val |-> acc]
    ELSE LET r == scan_events(Semester(element.label, NoneDate, NoneDate),
                              element.lines, 1, year_text)
         IN  IF r.exc # ""
             THEN [stop |-> TRUE, exc |-> r.exc, val |-> acc]
             ELSE [stop |-> FALSE, exc |-> "", val |-> Append(acc, r.val)]

\* for element in year.find_all_next(), from element i on
RECURSIVE scan_year(_, _, _, _)
scan_year(markup, i, year_text, acc) ==
    IF i > Len(markup) THEN Ok(acc)
    ELSE CHOOSE out \in
             {IF r.exc # "" THEN Raise(r.exc, r.val)
              ELSE IF r.stop THEN Ok(r.val)
              ELSE scan_year(markup, i + 1, year_text, r.val) :
                 r \in {element_step(markup[i], year_text, acc)}} : TRUE

\* for year in soup.find_all("h3"), from element j on
RECURSIVE scan_years(_, _, _)
scan_years(markup, j, acc) ==
    IF j > Len(markup) THEN Ok(acc)
    ELSE IF markup[j].tag # "h3" THEN scan_years(markup, j + 1, acc)
    ELSE CHOOSE out \in
             {IF r.exc # "" THEN Raise(r.exc, <<>>)
              ELSE scan_years(markup, j + 1, r.val) :
                 r \in {scan_year(markup, j + 1, markup[j].text, acc)}} : TRUE

get_semester_times(markup) == scan_years(markup, 1, <<>>)

----------------------------------------------------------------------------
(* get_semester_week *)

\* week_tuple with a 0-based week index
week_tuple_zero_based(semester, checked_date) ==
    <<semester.name, DaysBetween(checked_date, semester.start_date) \div 7,
      strftime_A(checked_date)>>

\* the tuple returned for a semester that contains checked_date
week_tuple(semester, checked_date) ==
    LET days_since_start == DaysBetween(checked_date, semester.start_date)
        week_index == (days_since_start \div 7) + 1
    IN  <<semester.name, week_index, strftime_A(checked_date)>>

\* for semester in semesters, from semester i on; <<>> is None.
\* Comparing a datetime with None raises TypeError; the chained comparison
\* reads end_date only when start_date <= checked_date.
RECURSIVE week_from(_, _, _)
week_from(sems, i, checked_date) ==
    IF i > Len(sems) THEN Ok(<<>>)
    ELSE IF sems[i].start_date = NoneDate THEN Raise("TypeError", <<>>)
    ELSE IF ~DateLeq(sems[i].start_date, checked_date) THEN week_from(sems, i + 1, checked_date)
    ELSE IF sems[i].end_date = NoneDate THEN Raise("TypeError", <<>>)
    ELSE IF DateLeq(checked_date, sems[i].end_date) THEN Ok(week_tuple(sems[i], checked_date))
    ELSE week_from(sems, i + 1, checked_date)

get_semester_week(sems, checked_date) == week_from(sems, 1, checked_date)

----------------------------------------------------------------------------
(* the whatweekisit command *)

\* the phrases random.choice picks from
NumPhrases == 15

Phrases == 1..NumPhrases

Message(kind, date_text, phrase, body) ==
    [kind |-> kind, date |-> date_text, phrase |-> phrase, body |-> body]

\* min() and max() of a non-empty collection of numbers
Min(S) == CHOOSE a \in S : \A b \in S : a <= b

Max(S) == CHOOSE a \in S : \A b \in S : b <= a

\* [h.text for h in soup.find_all("h3")]
RECURSIVE heading_texts(_, _)
heading_texts(markup, i) ==
    IF i > Len(markup) THEN <<>>
    ELSE IF markup[i].tag = "h3" THEN <<markup[i].text>> \o heading_texts(markup, i + 1)
    ELSE heading_texts(markup, i + 1)

\* the if date == None / else / try / except that sets check_date
resolve_check_date(date_arg, now) ==
    IF date_arg = NoneArg THEN Ok(now) ELSE string_to_date(date_arg)

\* not_found_message with the last known year left out of the span
not_found_message_before_max(markup, checked_date) ==
    LET date_text == date_to_string(checked_date)
        years == heading_texts(markup, 1)
        nums == {IntOfYear(years[i]) : i \in 1..Len(years)}
    IN  IF nums = {} \/ 0 \in nums
        THEN Raise("ValueError", Message("", date_text, 0, <<>>))
        ELSE IF Min(nums) <= checked_date.year /\ checked_date.year < Max(nums)
        THEN Ok(Message("OutOfSession", date_text, 0, <<>>))
        ELSE Ok(Message("OutOfRange", date_text, 0, <<>>))

\* the branch "if not semester_tuple": int() and min() raise ValueError
not_found_message(markup, checked_date) ==
    LET date_text == date_to_string(checked_date)
        years == heading_texts(markup, 1)
        year_numbers == [i \in 1..Len(years) |-> IntOfYear(years[i])]
        nums == {year_numbers[i] : i \in 1..Len(years)}
    IN  IF \E i \in 1..Len(years) : year_numbers[i] = 0
        THEN Raise("ValueError", Message("", date_text, 0, <<>>))
        ELSE IF nums = {}
        THEN Raise("ValueError", Message("", date_text, 0, <<>>))
        ELSE IF Min(nums) <= checked_date.year /\ checked_date.year <= Max(nums)
        THEN Ok(Message("OutOfSession", date_text, 0, <<>>))
        ELSE Ok(Message("OutOfRange", date_text, 0, <<>>))

\* the else branch: message is only bound when a date was given
found_message(date_arg, tuple, phrase) ==
    LET semester_name == tuple[1]
        week_index == tuple[2]
        weekday == tuple[3]
        week_name == <<"Week", week_index>>
    IN  IF date_arg # NoneArg
        THEN Ok(Message("Found", date_arg, phrase, <<weekday, week_name, semester_name>>))
        ELSE Raise("UnboundLocalError", Message("", <<>>, 0, <<>>))

\* format_error_exit without its return: the command goes on to read and parse
\* the calendar and then reads check_date, which was never bound
format_error_no_return(date_arg) ==
    \E st \in {get_semester_times(calendar_page)} :
        /\ date' = date_arg
        /\ check_date' = NoneDate
        /\ semesters' = st.val
        /\ semester_tuple' = <<>>
        /\ replies' = <<Message("BadFormat", <<"%d", "/", "%m", "/", "%Y">>, 0, <<>>)>>
        /\ exc' = IF st.exc # "" THEN st.exc ELSE "UnboundLocalError"
        /\ trace' = <<"defer", "string_to_date", "edit_original_response",
                      "open", "get_semester_times">>

\* string_to_date raised ValueError: reply with the format and return
format_error_exit(date_arg) ==
    /\ date' = date_arg
    /\ check_date' = NoneDate
    /\ semesters' = <<>>
    /\ semester_tuple' = <<>>
    /\ replies' = <<Message("BadFormat", <<"%d", "/", "%m", "/", "%Y">>, 0, <<>>)>>
    /\ exc' = ""
    /\ trace' = <<"defer", "string_to_date", "edit_original_response">>

\* the command from the read of the calendar file to the reply
lookup(date_arg, checked_date, head) ==
    \E st \in {get_semester_times(calendar_page)} :
    \E sw \in {IF st.exc = "" THEN get_semester_week(st.val, checked_date) ELSE Ok(<<>>)} :
    \E nf \in {IF st.exc = "" /\ sw.exc = "" /\ sw.val = <<>>
               THEN not_found_message(calendar_page, checked_date)
               ELSE Ok(Message("", <<>>, 0, <<>>))} :
        /\ check_date' = checked_date
        /\ IF st.exc # ""
           THEN /\ date' = date_arg
                /\ semesters' = <<>>
                /\ semester_tuple' = <<>>
                /\ replies' = <<>>
                /\ exc' = st.exc
                /\ trace' = head \o <<"open", "get_semester_times">>
           ELSE IF sw.exc # ""
           THEN /\ date' = date_arg
                /\ semesters' = st.val
                /\ semester_tuple' = <<>>
                /\ replies' = <<>>
                /\ exc' = sw.exc
                /\ trace' = head \o <<"open", "get_semester_times", "get_semester_week">>
           ELSE IF sw.val = <<>>
           THEN /\ date' = date_to_string(checked_date)
                /\ semesters' = st.val
                /\ semester_tuple' = <<>>
                /\ exc' = nf.exc
                /\ replies' = IF nf.exc = "" THEN <<nf.val>> ELSE <<>>
                /\ trace' = head \o <<"open", "get_semester_times", "get_semester_week",
                                      "date_to_string", "BeautifulSoup">>
                              \o (IF nf.exc = "" THEN <<"edit_original_response">> ELSE <<>>)
           ELSE \E phrase \in (IF date_arg = NoneArg THEN {0} ELSE Phrases) :
                \E fm \in {found_message(date_arg, sw.val, phrase)} :
                    /\ date' = date_arg
                    /\ semesters' = st.val
                    /\ semester_tuple' = sw.val
                    /\ exc' = fm.exc
                    /\ replies' = IF fm.exc = "" THEN <<fm.val>> ELSE <<>>
                    /\ trace' = head \o <<"open", "get_semester_times", "get_semester_week">>
                                  \o (IF fm.exc = "" THEN <<"choice", "edit_original_response">>
                                      ELSE <<>>)

\* one invocation of the command, from defer() to its end
whatweekisit(date_arg, now) ==
    \E d \in {resolve_check_date(date_arg, now)} :
        /\ UNCHANGED calendar_page
        /\ IF d.exc # ""
           THEN format_error_exit(date_arg)
           ELSE lookup(date_arg, d.val,
                       IF date_arg = NoneArg THEN <<"defer", "now">>
                       ELSE <<"defer", "string_to_date">>)

----------------------------------------------------------------------------
(* Explored inputs *)

SeqsUpTo(S, n) == UNION {[1..k -> S] : k \in 0..n}

At(y, m, d, h) == [year |-> y, month |-> m, day |-> d, hour |-> h]

\* the <li> texts of the line-level documents
LineTexts == {
    <<"26", "Feb", Sep, "Classes", "start">>,
    <<"4", "Mar", Sep, "Classes", "start">>,
    <<"1", "Jun", Sep, "Semester 1", "classes", "end">>,
    <<"19", "Feb", Sep, "Semester 1", "ends">>,
    <<"26", "Oct", Sep, "Semester 2", "ends">>,
    <<"9", "Jun", Sep, "Classes", "start", "after", "Semester 1", "ends">>,
    <<"31", "Mar", Sep, "Census", "date">>,
    <<"Classes", "start", "in", "week", "1">> }

\* one year heading and one teaching-semester block with any lines
LineDocuments ==
    {<<H3("2024"), AccordionItem(label, lines)>> :
        label \in RecognizedLabels, lines \in SeqsUpTo(LineTexts, MaxLines)}

Semester1Block ==
    AccordionItem("Semester 1", << <<"26", "Feb", Sep, "Classes", "start">>,
                                   <<"1", "Jun", Sep, "Semester 1", "classes", "end">> >>)

Semester2Block ==
    AccordionItem("Semester 2", << <<"22", "Jul", Sep, "Classes", "start">>,
                                   <<"26", "Oct", Sep, "Semester 2", "ends">> >>)

SummerBlock ==
    AccordionItem("Summer Semester", << <<"25", "Nov", Sep, "Classes", "start">> >>)

\* a year heading, then any arrangement of year headings and blocks
StructureDocuments ==
    {<<H3("2024")>> \o rest :
        rest \in SeqsUpTo({H3("2024"), H3("2025"), Semester1Block, Semester2Block,
                           SummerBlock}, MaxElems)}

Documents == LineDocuments \cup StructureDocuments

\* the calendar files the command is run against: a year heading, then any
\* arrangement of a second year heading and complete teaching-semester blocks
CalendarFiles ==
    {<<H3("2024")>> \o rest :
        rest \in SeqsUpTo({H3("2025"), Semester1Block, Semester2Block}, MaxCalElems)}

\* date arguments: well-formed ones, then malformed ones
DateArgs == {
    <<"26", "/", "02", "/", "2024">>,
    <<"4", "/", "3", "/", "2024">>,
    <<"01", "/", "06", "/", "2024">>,
    <<"02", "/", "06", "/", "2024">>,
    <<"22", "/", "07", "/", "2025">>,
    <<"10", "/", "03", "/", "2026">>,
    <<"31", "/", "02", "/", "2024">>,
    <<"26", "-", "02", "-", "2024">>,
    <<"26", "/", "02", "/", "24">>,
    <<"26", "Feb", "2024">> }

ClockHours == {0, 12}

\* values of datetime.now()
Nows ==
    {At(2024, 2, 26, h) : h \in ClockHours} \cup {At(2024, 6, 1, h) : h \in ClockHours}
    \cup {At(2024, 6, 2, h) : h \in ClockHours} \cup {At(2026, 3, 10, h) : h \in ClockHours}

\* semester lists and dates given directly to get_semester_week
WeekDays == {At(2024, 2, 26, 0), At(2024, 3, 4, 0), At(2024, 6, 1, 0)}

SemesterLists ==
    SeqsUpTo({Semester(n, s, e) : n \in RecognizedLabels, s \in WeekDays, e \in WeekDays},
             MaxSemesters)

CheckedDates ==
    {At(2024, 2, 26, h) : h \in ClockHours} \cup {At(2024, 3, 3, h) : h \in ClockHours}
    \cup {At(2024, 3, 4, h) : h \in ClockHours} \cup {At(2024, 6, 1, h) : h \in ClockHours}
    \cup {At(2024, 2, 25, h) : h \in ClockHours}

----------------------------------------------------------------------------
(* Specification of the command: any calendar file, any invocations *)

Init ==
    /\ calendar_page \in CalendarFiles
    /\ date = NoneArg
    /\ check_date = NoneDate
    /\ semesters = <<>>
    /\ semester_tuple = <<>>
    /\ replies = <<>>
    /\ exc = ""
    /\ trace = <<>>

Next ==
    \/ \E date_arg \in DateArgs : whatweekisit(date_arg, NoneDate)
    \/ \E now \in Nows : whatweekisit(NoneArg, now)

Spec == Init /\ [][Next]_vars

----------------------------------------------------------------------------
(* Specification of the parser: get_semester_times applied to any document *)

InitParse ==
    /\ calendar_page \in Documents
    /\ date = NoneArg
    /\ check_date = NoneDate
    /\ semesters = <<>>
    /\ semester_tuple = <<>>
    /\ replies = <<>>
    /\ exc = ""
    /\ trace = <<>>

ParseCalendar ==
    /\ trace = <<>>
    /\ LET st == get_semester_times(calendar_page)
       IN  /\ semesters' = st.val
           /\ exc' = st.exc
    /\ trace' = <<"get_semester_times">>
    /\ UNCHANGED <<calendar_page, date, check_date, semester_tuple, replies>>

NextParse == ParseCalendar

SpecParse == InitParse /\ [][NextParse]_vars

----------------------------------------------------------------------------
(* Specification of the resolver: get_semester_week applied to any list *)

InitWeek ==
    /\ calendar_page = <<>>
    /\ date = NoneArg
    /\ check_date \in CheckedDates
    /\ semesters \in SemesterLists
    /\ semester_tuple = <<>>
    /\ replies = <<>>
    /\ exc = ""
    /\ trace = <<>>

ResolveWeek ==
    /\ trace = <<>>
    /\ LET sw == get_semester_week(semesters, check_date)
       IN  /\ semester_tuple' = sw.val
           /\ exc' = sw.exc
    /\ trace' = <<"get_semester_week">>
    /\ UNCHANGED <<calendar_page, date, check_date, semesters, replies>>

NextWeek == ResolveWeek

SpecWeek == InitWeek /\ [][NextWeek]_vars

----------------------------------------------------------------------------
(* Vocabulary of the properties *)

\* the running function has ended (returned or raised)
Ended == trace # <<>>

\* the running function made this call
Ran(call) == \E i \in 1..Len(trace) : trace[i] = call

\* the k-th smallest member of a set of numbers
Nth(S, k) == CHOOSE i \in S : Cardinality({j \in S : j < i}) = k - 1

Headings(doc) == {i \in 1..Len(doc) : doc[i].tag = "h3"}

\* the nearest year heading before element i; 0 if there is none
SectionHead(doc, i) ==
    IF \E j \in Headings(doc) : j < i
    THEN Max({j \in Headings(doc) : j < i})
    ELSE 0

\* blocks with the label of a teaching semester
RecognizedBlocks(doc) ==
    {i \in 1..Len(doc) : doc[i].tag = "div" /\ doc[i].label \in {"Semester 1", "Semester 2"}}

\* recognized blocks inside a year section with only recognized blocks before them
LiveBlocks(doc) ==
    {i \in RecognizedBlocks(doc) :
        /\ SectionHead(doc, i) > 0
        /\ \A k \in (SectionHead(doc, i) + 1)..(i - 1) : k \in RecognizedBlocks(doc)}

\* the document without the blocks that are not live
Pruned(doc) ==
    LET kept == Headings(doc) \cup LiveBlocks(doc)
    IN  [k \in 1..Cardinality(kept) |-> doc[Nth(kept, k)]]

\* lines of a block that hold the start marker / an end marker of its own label only
StartLines(block) ==
    {j \in 1..Len(block.lines) : Contains(block.lines[j], <<"Classes", "start">>)}

EndLines(block) ==
    {j \in 1..Len(block.lines) :
        /\ j \notin StartLines(block)
        /\ \/ Contains(block.lines[j], <<block.label, "classes", "end">>)
           \/ Contains(block.lines[j], <<block.label, "ends">>)}

\* a semester that has both dates
Dated(s) == s.start_date # NoneDate /\ s.end_date # NoneDate

\* q lies in the range of s
InRange(s, q) == Hours(s.start_date) <= Hours(q) /\ Hours(q) <= Hours(s.end_date)

SameDay(a, b) == a.year = b.year /\ a.month = b.month /\ a.day = b.day

\* the years of the calendar file's headings
KnownYears == {IntOfYear(calendar_page[i].text) : i \in Headings(calendar_page)}

\* a date argument in the format day/month/4-digit-year that names a calendar day
WellFormedArg(s) ==
    /\ Len(s) = 5
    /\ s[2] = "/"
    /\ s[4] = "/"
    /\ \E y \in DOMAIN YearText : \E m \in 1..12 : \E d \in 1..31 :
          /\ d <= DaysInMonth(y, m)
          /\ s[5] = YearText[y]
          /\ s[3] \in {NumTok[m], Pad2(m)}
          /\ s[1] \in {NumTok[d], Pad2(d)}

----------------------------------------------------------------------------
(* Properties of get_semester_week (SpecWeek) *)

\* C1: get_semester_week returns the tuple of the first semester, in list order,
\* whose range holds the queried date (also when ranges overlap): its name, the
\* week (whole days since its start_date) div 7 + 1 and the weekday of the date;
\* a query at start_date is week 1, one 7 days later is week 2, 26 February and
\* 4 March 2024 are Mondays; it returns None exactly when no range holds the date.
C1_FirstSemesterInRangeDecides ==
    Ended =>
        LET hits == {i \in 1..Len(semesters) : InRange(semesters[i], check_date)}
        IN  /\ exc = ""
            /\ (hits = {} <=> semester_tuple = <<>>)
            /\ hits # {} =>
                 LET s == semesters[Min(hits)]
                     whole_days == (Hours(check_date) - Hours(s.start_date)) \div 24
                 IN  /\ semester_tuple[1] = s.name
                     /\ semester_tuple[2] = (whole_days \div 7) + 1
                     /\ (SameDay(check_date, s.start_date) => semester_tuple[2] = 1)
                     /\ (toordinal(check_date) = toordinal(s.start_date) + 7
                            => semester_tuple[2] = 2)
                     /\ (check_date.year = 2024
                           /\ <<check_date.day, check_date.month>> \in {<<26, 2>>, <<4, 3>>}
                            => semester_tuple[3] = "Monday")
                     /\ (check_date.year = 2024 /\ check_date.month = 6
                           /\ check_date.day = 1
                            => semester_tuple[3] = "Saturday")

\* two overlapping semesters hold the date; the first listed one is reported, in week 2
C1_Witness ==
    /\ Ended
    /\ Len(semesters) = 2
    /\ semesters[1].name # semesters[2].name
    /\ InRange(semesters[1], check_date)
    /\ InRange(semesters[2], check_date)
    /\ semester_tuple = <<semesters[1].name, 2, "Monday">>

----------------------------------------------------------------------------
(* Properties of get_semester_times (SpecParse) *)

\* C3: a teaching-semester block without a "Classes start" line or without an
\* end line makes the parse fail, and no returned Semester has an absent date.
C3_NoAbsentDates ==
    Ended =>
        /\ exc = "" => \A k \in 1..Len(semesters) : Dated(semesters[k])
        /\ (\E i \in LiveBlocks(calendar_page) :
               StartLines(calendar_page[i]) = {} \/ EndLines(calendar_page[i]) = {})
             => exc # ""

\* C4: every returned Semester has start_date <= end_date.
C4_StartNotAfterEnd ==
    (Ended /\ exc = "") =>
        \A k \in 1..Len(semesters) :
            Dated(semesters[k]) => Hours(semesters[k].start_date) <= Hours(semesters[k].end_date)

\* C7 as stated: one Semester per block labelled "Semester 1" or "Semester 2", in
\* document order, each named after its block and dated with the year of the
\* nearest heading before it.
C7_OnePerRecognizedBlock ==
    (Ended /\ exc = "") =>
        LET blocks == RecognizedBlocks(calendar_page)
        IN  /\ Len(semesters) = Cardinality(blocks)
            /\ \A k \in 1..Len(semesters) :
                 LET i == Nth(blocks, k)
                     head == SectionHead(calendar_page, i)
                 IN  /\ semesters[k].name = calendar_page[i].label
                     /\ head > 0
                     /\ \A d \in {semesters[k].start_date, semesters[k].end_date} \ {NoneDate} :
                            d.year = IntOfYear(calendar_page[head].text)

\* C7 amended: one Semester per live block (a teaching-semester block that follows
\* a year heading with no unrecognized block between that heading and itself), in
\* document order, each named after its block and dated with the year of the
\* nearest heading before it; a section without live blocks adds nothing.
C7_OnePerLiveBlock ==
    (Ended /\ exc = "") =>
        LET blocks == LiveBlocks(calendar_page)
        IN  /\ Len(semesters) = Cardinality(blocks)
            /\ \A k \in 1..Len(semesters) :
                 LET i == Nth(blocks, k)
                     head == SectionHead(calendar_page, i)
                 IN  /\ semesters[k].name = calendar_page[i].label
                     /\ \A d \in {semesters[k].start_date, semesters[k].end_date} \ {NoneDate} :
                            d.year = IntOfYear(calendar_page[head].text)

\* two year sections each gave a semester, dated with its own year
C7_Witness ==
    /\ Ended
    /\ exc = ""
    /\ Len(semesters) >= 2
    /\ \E a, b \in 1..Len(semesters) :
          /\ a < b
          /\ Dated(semesters[a])
          /\ Dated(semesters[b])
          /\ semesters[a].start_date.year = 2024
          /\ semesters[b].start_date.year = 2025

\* C8: the first block of a year section with another label ends the scan of that
\* section: that block and the blocks after it add nothing (the result is that of
\* the document without them), and every block before it, and every other
\* section's live block, adds its Semester.
C8_UnrecognizedLabelEndsSection ==
    (Ended /\ exc = "") =>
        /\ get_semester_times(Pruned(calendar_page)) = Ok(semesters)
        /\ Len(semesters) = Cardinality(LiveBlocks(calendar_page))

\* a section with a semester before a summer block and a semester after it: only
\* the one before is returned
C8_Witness ==
    /\ Ended
    /\ exc = ""
    /\ Len(semesters) = 1
    /\ \E i, j, k \in 1..Len(calendar_page) :
          /\ i < j
          /\ j < k
          /\ SectionHead(calendar_page, k) = SectionHead(calendar_page, i)
          /\ i \in LiveBlocks(calendar_page)
          /\ calendar_page[j].label = "Summer Semester"
          /\ k \in RecognizedBlocks(calendar_page)
          /\ semesters[1].name = calendar_page[i].label

\* C10: within a block the lines are taken in order and a later match overwrites:
\* start_date is the date of the last line holding "Classes start"; end_date is the
\* date of the last line that holds "<label> classes end" or "<label> ends" and
\* does not hold "Classes start"; with no such line the date stays None.
C10_LastMatchingLineWins ==
    (Ended /\ exc = "") =>
        \A k \in 1..Cardinality(LiveBlocks(calendar_page)) :
            LET i == Nth(LiveBlocks(calendar_page), k)
                block == calendar_page[i]
                year_text == calendar_page[SectionHead(calendar_page, i)].text
                starts == StartLines(block)
                ends == EndLines(block)
            IN  /\ k <= Len(semesters)
                /\ semesters[k].start_date =
                     IF starts = {} THEN NoneDate
                     ELSE get_date(block.lines[Max(starts)], year_text).val
                /\ semesters[k].end_date =
                     IF ends = {} THEN NoneDate
                     ELSE get_date(block.lines[Max(ends)], year_text).val

\* two "Classes start" lines with different dates: the later line gives start_date
C10_Witness ==
    /\ Ended
    /\ exc = ""
    /\ Len(semesters) = 1
    /\ Len(calendar_page) = 2
    /\ StartLines(calendar_page[2]) = {1, 2}
    /\ calendar_page[2].lines[1] # calendar_page[2].lines[2]
    /\ semesters[1].start_date = get_date(calendar_page[2].lines[2], "2024").val
    /\ semesters[1].start_date # get_date(calendar_page[2].lines[1], "2024").val

----------------------------------------------------------------------------
(* Properties of the whatweekisit command (Spec) *)

\* C2: when get_semester_week finds no semester for the date, the reply is the
\* out-of-session one exactly when min(known years) <= the date's year <=
\* max(known years) and the out-of-bounds one otherwise; exactly one reply is sent.
C2_NotFoundClassification ==
    (Ended /\ Ran("get_semester_week") /\ semester_tuple = <<>>) =>
        /\ exc = ""
        /\ Len(replies) = 1
        /\ replies[1].kind \in {"OutOfSession", "OutOfRange"}
        /\ replies[1].kind = "OutOfSession" <=>
              (\E lo, hi \in KnownYears :
                   lo <= check_date.year /\ check_date.year <= hi)

\* a date of 2026 against a calendar of 2024 and 2025 with a semester: out of bounds
C2_Witness ==
    /\ Ended
    /\ Len(semesters) >= 1
    /\ KnownYears = {2024, 2025}
    /\ check_date.year = 2026
    /\ Len(replies) = 1
    /\ replies[1].kind = "OutOfRange"

\* C5: every invocation ends with exactly one reply and without an exception, and
\* a found query without a date argument is answered with the weekday, week and
\* semester of the current date.
C5_OneReplyNoException ==
    Ended =>
        /\ exc = ""
        /\ Len(replies) = 1
        /\ (trace[2] = "now" /\ semester_tuple # <<>>) =>
              /\ replies[1].kind = "Found"
              /\ replies[1].body =
                   <<semester_tuple[3], <<"Week", semester_tuple[2]>>, semester_tuple[1]>>

\* C6: a date argument that is not a day/month/4-digit-year date is answered once
\* with the format message, and nothing else is done: the calendar is not read
\* or parsed and no week is resolved.
C6_BadDateStopsAfterOneReply ==
    (Ended /\ Ran("string_to_date") /\ ~WellFormedArg(date)) =>
        /\ replies = <<Message("BadFormat", <<"%d", "/", "%m", "/", "%Y">>, 0, <<>>)>>
        /\ trace = <<"defer", "string_to_date", "edit_original_response">>
        /\ exc = ""
        /\ semesters = <<>>
        /\ semester_tuple = <<>>

\* 31/02/2024 has the shape of the format but names no day: one format reply
C6_Witness ==
    /\ Ended
    /\ date = <<"31", "/", "02", "/", "2024">>
    /\ Len(replies) = 1
    /\ replies[1].kind = "BadFormat"
    /\ ~Ran("open")

\* C9: the end date is inclusive as a civil day: a query on the civil day of a
\* dated semester's end_date, at any time of day, is found.
C9_EndDayIsInSession ==
    (Ended /\ Ran("get_semester_week")
       /\ \E k \in 1..Len(semesters) :
             /\ Dated(semesters[k])
             /\ Hours(semesters[k].start_date) <= Hours(semesters[k].end_date)
             /\ SameDay(check_date, semesters[k].end_date))
      => semester_tuple # <<>>

====
